---- MODULE Spec2Model ----
(***************************************************************************)
(* AscentViewer (ascv_main.py): the directory navigation list and the      *)
(* adaptive render pipeline of MainUi.                                     *)
(*                                                                         *)
(* Strings are sequences of one-character strings, so that basename,       *)
(* str.replace, str.lower, glob and the sort are computed as the code      *)
(* computes them.  Every handler is one action; a handler that raises      *)
(* stops where the exception is raised (the installed sys.excepthook logs  *)
(* it and the event loop goes on), keeping the assignments made so far.    *)
(***************************************************************************)
EXTENDS Integers, Sequences, FiniteSets, TLC

(* ------------------------------------------------------------------ *)
(* Bounds of the model                                                 *)
(* ------------------------------------------------------------------ *)

\* imageNumber can grow without limit once it is out of range; nextImage is
\* not taken beyond this value.
MaxIndex == 3

\* Amount of time that passes in one Tick.
TickStep == 125

\* The resize calls of one burst are counted up to this number.
MaxBurst == 2

\* the largest width and height of a source image given to thumbnail
MaxDim == 1500

(* ------------------------------------------------------------------ *)
(* Program constants                                                   *)
(* ------------------------------------------------------------------ *)

\* self.timer.start(250)
TimerDelay == 250

\* QTimer.isActive() == False
Inactive == -1

(* ------------------------------------------------------------------ *)
(* Strings                                                             *)
(* ------------------------------------------------------------------ *)

Empty == << >>

Slash == "/"

UpperCase == <<"A","B","C","D","E","F","G","H","I","J","K","L","M",
               "N","O","P","Q","R","S","T","U","V","W","X","Y","Z">>

LowerCase == <<"a","b","c","d","e","f","g","h","i","j","k","l","m",
               "n","o","p","q","r","s","t","u","v","w","x","y","z">>

\* The characters in ASCII order; Ord gives a character's rank.
Ascii == <<".", "/">> \o UpperCase \o LowerCase

Ord(c) == CHOOSE i \in 1..Len(Ascii) : Ascii[i] = c

\* str.lower on one character
LowerChar(c) ==
    IF \E i \in 1..Len(UpperCase) : UpperCase[i] = c
    THEN LowerCase[CHOOSE i \in 1..Len(UpperCase) : UpperCase[i] = c]
    ELSE c

\* str.lower
Lower(s) == [i \in 1..Len(s) |-> LowerChar(s[i])]

\* s < t for Python strings (lexicographic by code point)
RECURSIVE StrLess(_, _)
StrLess(s, t) ==
    IF t = Empty THEN FALSE
    ELSE IF s = Empty THEN TRUE
    ELSE IF Head(s) = Head(t) THEN StrLess(Tail(s), Tail(t))
    ELSE Ord(Head(s)) < Ord(Head(t))

StartsWith(s, pre) ==
    /\ Len(pre) <= Len(s)
    /\ SubSeq(s, 1, Len(pre)) = pre

EndsWith(s, suf) ==
    /\ Len(suf) <= Len(s)
    /\ SubSeq(s, Len(s) - Len(suf) + 1, Len(s)) = suf

\* position of the last "/" of p, 0 when there is none
LastSlash(p) ==
    IF \E i \in 1..Len(p) : p[i] = Slash
    THEN CHOOSE i \in 1..Len(p) :
            /\ p[i] = Slash
            /\ \A j \in (i+1)..Len(p) : p[j] # Slash
    ELSE 0

\* os.path.basename
Basename(p) == SubSeq(p, LastSlash(p) + 1, Len(p))

\* str.replace(sub, ""): every non-overlapping occurrence, left to right
RECURSIVE RemoveAll(_, _)
RemoveAll(s, sub) ==
    IF s = Empty \/ sub = Empty THEN s
    ELSE IF StartsWith(s, sub) THEN RemoveAll(SubSeq(s, Len(sub) + 1, Len(s)), sub)
    ELSE <<Head(s)>> \o RemoveAll(Tail(s), sub)

\* str.rstrip("/")
RECURSIVE RStripSlash(_)
RStripSlash(s) ==
    IF s # Empty /\ s[Len(s)] = Slash
    THEN RStripSlash(SubSeq(s, 1, Len(s) - 1))
    ELSE s

AllSlashes(s) == \A i \in 1..Len(s) : s[i] = Slash

\* repeated "/" collapsed and the trailing one dropped: the directory the
\* operating system resolves a path to
RECURSIVE Collapse(_)
Collapse(s) ==
    IF Len(s) < 2 THEN s
    ELSE IF s[1] = Slash /\ s[2] = Slash THEN Collapse(Tail(s))
    ELSE <<Head(s)>> \o Collapse(Tail(s))

Resolve(s) ==
    LET c == Collapse(s)
    IN  IF Len(c) > 1 THEN RStripSlash(c) ELSE c

(* ------------------------------------------------------------------ *)
(* The file system the dialogs and glob see                            *)
(* ------------------------------------------------------------------ *)

DirP == <<"/","p">>

DirQ == <<"/","q">>

DirE == <<"/","e">>

\* a directory that has the name of the file in it
DirC == <<"/","c",".","g","i","f">>

Root == <<"/">>

Dirs == {DirP, DirQ, DirE, DirC}

\* The names in each directory, in the order the directory lists them.
Listing(d) ==
    IF d = DirP THEN << <<"k",".","p","n","g">>, <<"B",".","p","n","g">>,
                        <<"a",".","j","p","g">> >>
    ELSE IF d = DirQ THEN << <<"z",".","b","m","p">>, <<"n",".","t","x","t">>,
                             <<".","h",".","p","n","g">> >>
    ELSE IF d = DirE THEN << <<"n",".","t","x","t">> >>
    ELSE IF d = DirC THEN << <<"c",".","g","i","f">> >>
    ELSE IF d = Root THEN << <<"p">>, <<"q">>, <<"e">>, <<"c",".","g","i","f">> >>
    ELSE << >>

Range(q) == { q[i] : i \in 1..Len(q) }

\* every file there is, by its absolute path
AllFiles == UNION { { d \o <<Slash>> \o n : n \in Range(Listing(d)) } : d \in Dirs }

\* Files that do not hold image data: /p/k.png (a supported extension on
\* something that is no image) and the text files.  /q/.h.png is an image
\* under a hidden name.
NotImageData ==
    { DirP \o <<Slash>> \o <<"k",".","p","n","g">>,
      DirQ \o <<Slash>> \o <<"n",".","t","x","t">>,
      DirE \o <<Slash>> \o <<"n",".","t","x","t">> }

\* What QFileDialog.getOpenFileName can return: any existing file that is
\* not hidden (the name filter restricts what is listed, not what may be
\* typed), or "" on cancel.
DialogFiles == { f \in AllFiles : Basename(f)[1] # "." } \cup {Empty}

\* What QFileDialog.getExistingDirectory can return, or "" on cancel.
DialogDirs == Dirs \cup {Empty}

(* ------------------------------------------------------------------ *)
(* dirMakeImageList: glob, separator replacement, sort                 *)
(* ------------------------------------------------------------------ *)

\* fileTypes, with the leading "*" of each pattern left out
fileTypes == << <<".","p","n","g">>, <<".","j","p","g">>, <<".","j","p","e","g">>,
                <<".","b","m","p">>, <<".","g","i","f">> >>

\* fnmatch of a name against "*" + ext: case-sensitive, and a pattern that
\* does not start with "." matches no hidden name
Matches(name, ext) ==
    /\ EndsWith(name, ext)
    /\ name[1] # "."

\* os.path.split(...)[0] of dirPath + "/" + pattern: the text up to the last
\* "/", with trailing "/" stripped unless it is all "/"
GlobHead(dp) ==
    LET head == dp \o <<Slash>>
    IN  IF AllSlashes(head) THEN head ELSE RStripSlash(head)

\* os.path.join(head, name)
Join(head, name) ==
    IF head # Empty /\ head[Len(head)] = Slash
    THEN head \o name
    ELSE head \o <<Slash>> \o name

RECURSIVE SelectSeqBy(_, _)
SelectSeqBy(q, ext) ==
    IF q = << >> THEN << >>
    ELSE IF Matches(Head(q), ext) THEN <<Head(q)>> \o SelectSeqBy(Tail(q), ext)
    ELSE SelectSeqBy(Tail(q), ext)

\* glob.glob(f"{dirPath}/{pattern}"); a directory whose name matches is
\* returned like a file
Glob(dp, ext) ==
    LET head  == GlobHead(dp)
        names == SelectSeqBy(Listing(Resolve(head)), ext)
    IN  [i \in 1..Len(names) |-> Join(head, names[i])]

RECURSIVE GlobAll(_, _)
GlobAll(dp, k) ==
    IF k > Len(fileTypes) THEN << >>
    ELSE Glob(dp, fileTypes[k]) \o GlobAll(dp, k + 1)

\* files.replace("\\", "/")
FixSeparators(p) == [i \in 1..Len(p) |-> IF p[i] = "\\" THEN Slash ELSE p[i]]

\* the key of the sort: str.lower
SortKey(p) == Lower(p)

\* list.sort(key=...) is stable: an element goes after every element whose
\* key is not greater than its own
RECURSIVE Insert(_, _)
Insert(sorted, x) ==
    IF sorted = << >> THEN <<x>>
    ELSE IF StrLess(SortKey(x), SortKey(Head(sorted)))
         THEN <<x>> \o sorted
         ELSE <<Head(sorted)>> \o Insert(Tail(sorted), x)

RECURSIVE SortList(_)
SortList(q) ==
    IF q = << >> THEN << >>
    ELSE Insert(SortList(SubSeq(q, 1, Len(q) - 1)), q[Len(q)])

\* self.dirImageList_ as dirMakeImageList builds it from self.dirPath
ScanDir(dp) ==
    LET found == GlobAll(dp, 1)
    IN  SortList([i \in 1..Len(found) |-> FixSeparators(found[i])])

\* ScanDir, computed once for every directory path a dialog can produce
ScanTable ==
    [dp \in Dirs \cup { RemoveAll(f, Basename(f)) : f \in AllFiles } |-> ScanDir(dp)]

dirImageList_(dp) == IF dp \in DOMAIN ScanTable THEN ScanTable[dp] ELSE ScanDir(dp)

\* Image.open and QPixmap decode a file by its content.
HoldsImage(p) == Resolve(p) \in (AllFiles \ NotImageData)

\* HoldsImage, computed once for every path a dialog or a scan can produce
DecodableTable ==
    [p \in DialogFiles \cup UNION { Range(ScanTable[dp]) : dp \in DOMAIN ScanTable }
        |-> HoldsImage(p)]

Decodable(p) == IF p \in DOMAIN DecodableTable THEN DecodableTable[p] ELSE HoldsImage(p)

\* list.index(x): 0-based position of the first occurrence, -1 standing for
\* ValueError
IndexOf(q, x) ==
    IF \E i \in 1..Len(q) : q[i] = x
    THEN (CHOOSE i \in 1..Len(q) : q[i] = x /\ \A j \in 1..(i-1) : q[j] # x) - 1
    ELSE -1

\* no width and height: a size not assigned yet, or of no image
NoSize == <<0, 0>>

\* The width and height of the images the files hold: one wider than the
\* preview box, one that fits in it, one taller than it, one a single pixel
\* wide, one a pixel wider than the box.
SizeByName ==
    ( <<"a",".","j","p","g">>     :> <<1000, 500>> ) @@
    ( <<"B",".","p","n","g">>     :> <<300, 200>> ) @@
    ( <<"z",".","b","m","p">>     :> <<400, 1200>> ) @@
    ( <<"c",".","g","i","f">>     :> <<1, 1000>> ) @@
    ( <<".","h",".","p","n","g">> :> <<501, 500>> )

\* im.size of Image.open(p), for a path that holds an image
SourceSize(p) == SizeByName[Basename(p)]

\* line 437: the box given to thumbnail
ThumbEdge == 500

Abs(n) == IF n < 0 THEN 0 - n ELSE n

\* round_aspect of PIL's thumbnail for the width: of floor and ceil of
\* y * w / h, the one whose ratio to y is nearer to w / h (the floor when
\* they tie), and at least 1
RoundAspectWidth(w, h, y) ==
    LET lo == (y * w) \div h
        hi == IF (y * w) % h = 0 THEN lo ELSE lo + 1
        n  == IF Abs(w * y - lo * h) <= Abs(w * y - hi * h) THEN lo ELSE hi
    IN  IF n < 1 THEN 1 ELSE n

\* round_aspect for the height: of floor and ceil of x * h / w, the one for
\* which x / n is nearer to w / h (0 counts as nearest), and at least 1
RoundAspectHeight(w, h, x) ==
    LET lo == (x * h) \div w
        hi == IF (x * h) % w = 0 THEN lo ELSE lo + 1
        n  == IF lo = 0 THEN lo
              ELSE IF Abs(w * lo - x * h) * hi <= Abs(w * hi - x * h) * lo
              THEN lo ELSE hi
    IN  IF n < 1 THEN 1 ELSE n

\* im.thumbnail((x, y)): an image that fits in the box is left as it is;
\* otherwise it is shrunk to the box, keeping its aspect ratio
thumbnail(size, x, y) ==
    LET w == size[1]
        h == size[2]
    IN  IF x >= w /\ y >= h THEN size
        ELSE IF x * h >= w * y
        THEN <<RoundAspectWidth(w, h, y), y>>
        ELSE <<x, RoundAspectHeight(w, h, x)>>

\* lines 432-446 reading the dimensions from the image object after
\* thumbnail has shrunk it
previewOfAfterThumbnail(size) ==
    LET thumb == thumbnail(size, ThumbEdge, ThumbEdge)
    IN  [source |-> size, thumbSize |-> thumb, dimensions |-> thumb]

\* lines 432-446: self.imWidth and imHeight are read from im.size, then
\* thumbnail shrinks im itself (imThumb is the same object) and the result is
\* saved; dimensionsLabel gets the width and height read before
previewOf(size) ==
    LET imWidth  == size[1]
        imHeight == size[2]
        thumb    == thumbnail(size, ThumbEdge, ThumbEdge)
    IN  [source |-> size, thumbSize |-> thumb, dimensions |-> <<imWidth, imHeight>>]

(* ------------------------------------------------------------------ *)
(* State                                                               *)
(* ------------------------------------------------------------------ *)

VARIABLES
    dirPath,        \* self.dirPath
    imgFilePath,    \* self.imgFilePath
    dirImageList,   \* self.dirImageList; << >> while the attribute is not set
    imageNumber,    \* self.imageNumber; NoIndex while the attribute is not set
    imTOut,         \* the image whose preview the file at self.imTOut holds;
                    \* "" while the attribute is not set
    mw,             \* <<self.mwWidth, self.mwHeight>>
    pixmap,         \* what self.label shows
    timer,          \* self.timer: time left until timeout, or Inactive
    navEnabled,     \* navButtonBack / navButtonForw enabled
    viewport,       \* self.label.frameGeometry(): the viewport host's size
    lastOp,         \* the handler that ran last
    result,         \* how it ended: "ok", the exception raised, ...; "elapsed"
                    \* when time has passed since
    scanned,        \* it ran the glob of dirMakeImageList
    reselected,     \* self.imgFilePath has changed since self.timer was started
    elapsed,        \* time passed since self.timer was last started
    burst,          \* resize calls since self.timer was last started, 0 once
                    \* another handler than resizeEvent and timeout has run
    sinceResize,    \* time passed since the last resize call of the burst
                    \* that burst counts
    regressed,      \* the last step replaced the rendition scaled from the
                    \* file by the one scaled from the preview
    source,         \* im.size as Image.open returned it at line 432
    thumbSize,      \* the size of the image saved to the preview slot
    dimensions      \* the width and height dimensionsLabel shows

vars == <<dirPath, imgFilePath, dirImageList, imageNumber, imTOut, mw,
          pixmap, timer, navEnabled, viewport, lastOp, result, scanned,
          reselected, elapsed, burst, sinceResize, regressed,
          source, thumbSize, dimensions>>

\* self.imageNumber is not assigned by __init__
NoIndex == -1

Sizes == { <<800, 600>>, <<400, 300>> }

NoExc == "none"

\* the label before any setPixmap: the welcome text
TextPixmap == [kind |-> "text", of |-> Empty, size |-> NoSize]

\* QPixmap(path).scaled(w, h, KeepAspectRatio[, SmoothTransformation]): a file
\* that cannot be loaded gives a null pixmap, and scaling it gives a null one
ScaledPixmap(kind, content, size) ==
    IF Decodable(content)
    THEN [kind |-> kind, of |-> content, size |-> size]
    ELSE [kind |-> "null", of |-> Empty, size |-> NoSize]

\* the program's state as one record, with how the running handler is doing
Cur ==
    [dirPath |-> dirPath, imgFilePath |-> imgFilePath,
     dirImageList |-> dirImageList, imageNumber |-> imageNumber,
     imTOut |-> imTOut, mw |-> mw, pixmap |-> pixmap, timer |-> timer,
     navEnabled |-> navEnabled,
     source |-> source, thumbSize |-> thumbSize, dimensions |-> dimensions,
     exc |-> NoExc, scanned |-> FALSE, emptyScan |-> FALSE, cancelled |-> FALSE]

Install(s) ==
    /\ dirPath' = s.dirPath
    /\ imgFilePath' = s.imgFilePath
    /\ dirImageList' = s.dirImageList
    /\ imageNumber' = s.imageNumber
    /\ imTOut' = s.imTOut
    /\ mw' = s.mw
    /\ pixmap' = s.pixmap
    /\ timer' = s.timer
    /\ navEnabled' = s.navEnabled
    /\ source' = s.source
    /\ thumbSize' = s.thumbSize
    /\ dimensions' = s.dimensions
    /\ scanned' = s.scanned
    /\ result' = IF s.exc # NoExc THEN s.exc
                 ELSE IF s.emptyScan THEN "EmptyDirectory"
                 ELSE IF s.cancelled THEN "cancelled"
                 ELSE "ok"

(* ------------------------------------------------------------------ *)
(* updateFunction and updateTimerFunc                                  *)
(* ------------------------------------------------------------------ *)

\* lines 432-450: the preview of self.imgFilePath goes to the slot and the
\* labels get the file's name, date and dimensions
savePreview(s) ==
    LET p == previewOf(SourceSize(s.imgFilePath))
    IN  [s EXCEPT !.imTOut = s.imgFilePath,
                  !.source = p.source,
                  !.thumbSize = p.thumbSize,
                  !.dimensions = p.dimensions]

\* updateFunction(0) without lines 452-454: the label keeps the pixmap of
\* line 444, made from the preview
updateFunctionHighPreviewOnly(s) ==
    IF ~Decodable(s.imgFilePath)
    THEN [s EXCEPT !.exc = "UnidentifiedImageError"]
    ELSE [savePreview(s) EXCEPT
                   !.pixmap = ScaledPixmap("thumb", s.imgFilePath, s.mw)]

\* updateFunction(0), lines 426-454: Image.open raises on a file that holds
\* no image; otherwise the preview of the image is saved to the slot and the
\* label gets the image scaled from the file itself.
updateFunctionHigh(s) ==
    IF ~Decodable(s.imgFilePath)
    THEN [s EXCEPT !.exc = IF Resolve(s.imgFilePath) \in Dirs
                           THEN "IsADirectoryError"
                           ELSE "UnidentifiedImageError"]
    ELSE [savePreview(s) EXCEPT
                   !.pixmap = ScaledPixmap("full", s.imgFilePath, s.mw)]

\* armTimer with the test of isActive() the wrong way round
armTimerInverted(t) == IF t # Inactive THEN TimerDelay ELSE t

\* if self.timer.isActive() == False: self.timer.start(250)
armTimer(t) == IF t = Inactive THEN TimerDelay ELSE t

\* updateFunction(1) scaling the file itself, as updateTimerFunc does, instead
\* of the preview
updateFunctionLowFromFile(s) ==
    LET s1 == [s EXCEPT !.timer = armTimer(s.timer)]
    IN  IF s1.imTOut = Empty
        THEN [s1 EXCEPT !.exc = "AttributeError"]
        ELSE [s1 EXCEPT !.pixmap = ScaledPixmap("full", s1.imgFilePath, s1.mw)]

\* updateFunction(1), lines 456-466: the timer is started unless it runs, and
\* the label gets the preview in the slot, scaled.  Reading self.imTOut
\* before updateFunction(0) has assigned it raises AttributeError.
updateFunctionLow(s) ==
    LET s1 == [s EXCEPT !.timer = armTimer(s.timer)]
    IN  IF s1.imTOut = Empty
        THEN [s1 EXCEPT !.exc = "AttributeError"]
        ELSE [s1 EXCEPT !.pixmap = ScaledPixmap("thumb", s1.imTOut, s1.mw)]

\* updateFunction without the test of line 424
updateFunctionUnguarded(s, i, size) ==
    LET s1 == [s EXCEPT !.mw = size]
    IN  IF i = 0 THEN updateFunctionHigh(s1) ELSE updateFunctionLow(s1)

updateFunction(s, i, size) ==
    LET s1 == [s EXCEPT !.mw = size]
    IN  IF s1.imgFilePath # Empty
        THEN IF i = 0 THEN updateFunctionHigh(s1)
             ELSE IF i = 1 THEN updateFunctionLow(s1)
             ELSE s1
        ELSE s1

\* updateTimerFunc without self.timer.stop(): the QTimer is not single-shot
\* and starts its next interval
updateTimerFuncRepeat(s) ==
    [s EXCEPT !.pixmap = ScaledPixmap("full", s.imgFilePath, s.mw),
              !.timer = TimerDelay]

\* updateTimerFunc rendering the image the preview slot was made from
\* instead of self.imgFilePath
updateTimerFuncStale(s) ==
    [s EXCEPT !.pixmap = ScaledPixmap("full", s.imTOut, s.mw),
              !.timer = Inactive]

\* updateTimerFunc putting the file on the label without scaling it to the
\* recorded size
updateTimerFuncUnscaled(s) ==
    [s EXCEPT !.pixmap = ScaledPixmap("full", s.imgFilePath, NoSize),
              !.timer = Inactive]

\* lines 468-472: the label gets self.imgFilePath scaled from the file, at
\* the size the last updateFunction call recorded, and the timer is stopped
updateTimerFunc(s) ==
    [s EXCEPT !.pixmap = ScaledPixmap("full", s.imgFilePath, s.mw),
              !.timer = Inactive]

(* ------------------------------------------------------------------ *)
(* dirMakeImageList, openImage, openDir, prevImage, nextImage          *)
(* ------------------------------------------------------------------ *)

\* dirMakeImageList assigning self.dirImageList before it tests the length
dirMakeImageListClobber(s, hasOpenedImage) ==
    LET list == dirImageList_(s.dirPath)
        s1   == [s EXCEPT !.scanned = TRUE, !.dirImageList = list]
    IN  IF Len(list) # 0
        THEN LET idx == IF hasOpenedImage = 1
                        THEN IndexOf(list, s1.imgFilePath)
                        ELSE 0
             IN  IF idx = -1
                 THEN [s1 EXCEPT !.exc = "ValueError"]
                 ELSE LET s2 == [s1 EXCEPT !.imageNumber = idx,
                                           !.imgFilePath = list[idx + 1]]
                          s3 == updateFunction(s2, 0, viewport)
                      IN  IF s3.exc # NoExc
                          THEN s3
                          ELSE [s3 EXCEPT !.navEnabled = TRUE]
        ELSE [s1 EXCEPT !.emptyScan = TRUE]

\* lines 530-560; the else branch only logs that the scan came back empty
dirMakeImageList(s, hasOpenedImage) ==
    LET list == dirImageList_(s.dirPath)
        s0   == [s EXCEPT !.scanned = TRUE]
    IN  IF Len(list) # 0
        THEN LET s1  == [s0 EXCEPT !.dirImageList = list]
                 idx == IF hasOpenedImage = 1
                        THEN IndexOf(list, s1.imgFilePath)
                        ELSE 0
             IN  IF idx = -1
                 THEN [s1 EXCEPT !.exc = "ValueError"]
                 ELSE LET s2 == [s1 EXCEPT !.imageNumber = idx,
                                           !.imgFilePath = list[idx + 1]]
                          s3 == updateFunction(s2, 0, viewport)
                      IN  IF s3.exc # NoExc
                          THEN s3
                          ELSE [s3 EXCEPT !.navEnabled = TRUE]
        ELSE [s0 EXCEPT !.emptyScan = TRUE]

\* replace, computed once for every path a dialog can produce
DirPathTable == [f \in DialogFiles |-> RemoveAll(f, Basename(f))]

\* self.imgFilePath.replace(os.path.basename(self.imgFilePath), "")
dirPathOf(path) ==
    IF path \in DOMAIN DirPathTable THEN DirPathTable[path]
    ELSE RemoveAll(path, Basename(path))

\* line 498: self.imageNumber = self.dirImageList.index(self.imgFilePath)
selectInList(s) ==
    IF s.dirImageList = << >>
    THEN [s EXCEPT !.exc = "AttributeError"]
    ELSE IF IndexOf(s.dirImageList, s.imgFilePath) = -1
    THEN [s EXCEPT !.exc = "ValueError"]
    ELSE [s EXCEPT !.imageNumber = IndexOf(s.dirImageList, s.imgFilePath)]

openImage(s, path) ==
    LET s1    == [s EXCEPT !.imgFilePath = path]
        dirP_ == dirPathOf(path)
    IN  IF s1.imgFilePath # Empty
        THEN IF s1.dirPath # Empty
             THEN IF s1.dirPath # dirP_
                  THEN dirMakeImageList([s1 EXCEPT !.dirPath = dirP_], 1)
                  ELSE selectInList(s1)
             ELSE dirMakeImageList([s1 EXCEPT !.dirPath = dirP_], 1)
        ELSE [s1 EXCEPT !.cancelled = TRUE]

openDir(s, dirP_) ==
    IF dirP_ # Empty
    THEN IF s.dirPath # Empty
         THEN IF s.dirPath # dirP_
              THEN dirMakeImageList([s EXCEPT !.dirPath = dirP_], 0)
              ELSE s
         ELSE dirMakeImageList([s EXCEPT !.dirPath = dirP_], 0)
    ELSE [s EXCEPT !.cancelled = TRUE]

\* lines 565-568
prevIndex(i, n) == IF i # 0 THEN i - 1 ELSE n - 1

\* nextImage without the wraparound
nextIndexNoWrap(i, n) == i + 1

\* lines 575-578
nextIndex(i, n) == IF i # n - 1 THEN i + 1 ELSE 0

\* prevImage and nextImage scanning the directory again instead of reading
\* self.dirImageList
showSelectedRescan(s) == dirMakeImageList(s, 0)

\* lines 570-571 and 580-581: self.dirImageList[self.imageNumber] raises
\* IndexError when the index is beyond the list
showSelected(s) ==
    IF s.imageNumber >= Len(s.dirImageList)
    THEN [s EXCEPT !.exc = "IndexError"]
    ELSE updateFunction([s EXCEPT !.imgFilePath = s.dirImageList[s.imageNumber + 1]],
                        0, viewport)

\* line 564 reads self.imageNumber first: AttributeError while it is not set
prevImage(s) ==
    IF s.imageNumber = NoIndex
    THEN [s EXCEPT !.exc = "AttributeError"]
    ELSE showSelected([s EXCEPT !.imageNumber =
                                    prevIndex(s.imageNumber, Len(s.dirImageList))])

\* line 574 reads self.imageNumber first
nextImage(s) ==
    IF s.imageNumber = NoIndex
    THEN [s EXCEPT !.exc = "AttributeError"]
    ELSE showSelected([s EXCEPT !.imageNumber =
                                    nextIndex(s.imageNumber, Len(s.dirImageList))])

\* a QAction that emits triggered whether it is enabled or not
triggersAlways(enabled) == TRUE

\* lines 205 and 211, 556 and 557: a QAction emits triggered, from its menu
\* entry or its shortcut, only while it is enabled
triggers(enabled) == enabled

(* ------------------------------------------------------------------ *)
(* Actions                                                             *)
(* ------------------------------------------------------------------ *)

\* the viewer after __init__, before any image file has been opened
InitViewer ==
    /\ dirPath = Empty
    /\ imgFilePath = Empty
    /\ dirImageList = << >>
    /\ imageNumber = NoIndex
    /\ imTOut = Empty
    /\ mw = NoSize
    /\ pixmap = TextPixmap
    /\ timer = Inactive
    /\ navEnabled = FALSE
    /\ viewport = <<800, 600>>
    /\ lastOp = "init"
    /\ result = "ok"
    /\ scanned = FALSE
    /\ reselected = FALSE
    /\ elapsed = 0
    /\ burst = 0
    /\ sinceResize = 0
    /\ regressed = FALSE

Init ==
    /\ InitViewer
    /\ source = NoSize
    /\ thumbSize = NoSize
    /\ dimensions = NoSize

\* What the observation variables record of a step of handler op.
Observe(op) ==
    /\ lastOp' = op
    /\ regressed' = (pixmap.kind = "full" /\ pixmap'.kind = "thumb")
    /\ sinceResize' = IF op = "tick" /\ burst > 0
                      THEN sinceResize + (timer - timer')
                      ELSE IF op = "timer" THEN sinceResize
                      ELSE 0
    /\ IF timer = Inactive /\ timer' # Inactive
       THEN /\ reselected' = FALSE
            /\ elapsed' = 0
            /\ burst' = 1
       ELSE IF timer' = Inactive /\ op # "timer"
       THEN /\ reselected' = FALSE
            /\ elapsed' = 0
            /\ burst' = 0
       ELSE /\ reselected' = (reselected \/ imgFilePath' # imgFilePath)
            /\ elapsed' = IF op = "tick" THEN elapsed + (timer - timer') ELSE elapsed
            /\ burst' = IF op \in {"timer", "tick"} THEN burst
                        ELSE IF op = "resize" /\ burst > 0
                        THEN (IF burst < MaxBurst THEN burst + 1 ELSE burst)
                        ELSE 0

\* File > Open image
OpenImage ==
    \E path \in DialogFiles :
        /\ \E after \in {openImage(Cur, path)} : Install(after)
        /\ UNCHANGED viewport
        /\ Observe("openImage")

\* File > Open directory
OpenDir ==
    \E d \in DialogDirs :
        /\ \E after \in {openDir(Cur, d)} : Install(after)
        /\ UNCHANGED viewport
        /\ Observe("openDir")

\* Navigation > Back; the action is disabled until dirMakeImageList enables it
PrevImage ==
    /\ triggers(navEnabled)
    /\ \E after \in {prevImage(Cur)} : Install(after)
    /\ UNCHANGED viewport
    /\ Observe("prevImage")

\* Navigation > Forward
NextImage ==
    /\ triggers(navEnabled)
    /\ imageNumber < MaxIndex
    /\ \E after \in {nextImage(Cur)} : Install(after)
    /\ UNCHANGED viewport
    /\ Observe("nextImage")

\* Left or Right pressed while the navigation actions are disabled: neither
\* prevImage nor nextImage is called
NavIgnored ==
    /\ ~triggers(navEnabled)
    /\ lastOp' = "navIgnored"
    /\ result' = "disabled"
    /\ scanned' = FALSE
    /\ regressed' = FALSE
    /\ UNCHANGED <<dirPath, imgFilePath, dirImageList, imageNumber, imTOut, mw,
                   pixmap, timer, navEnabled, viewport, reselected, elapsed,
                   burst, sinceResize, source, thumbSize, dimensions>>

\* the label's resizeEvent: updateFunction(1) at the new size
Resize ==
    \E size \in Sizes \ {viewport} :
        /\ viewport' = size
        /\ \E after \in {updateFunction(Cur, 1, size)} : Install(after)
        /\ Observe("resize")

\* time passes while the timer runs
Tick ==
    /\ timer > 0
    /\ timer' = IF timer > TickStep THEN timer - TickStep ELSE 0
    /\ result' = "elapsed"
    /\ scanned' = FALSE
    /\ UNCHANGED <<dirPath, imgFilePath, dirImageList, imageNumber, imTOut, mw,
                   pixmap, navEnabled, viewport, source, thumbSize, dimensions>>
    /\ Observe("tick")

\* self.timer.timeout
TimerFire ==
    /\ timer = 0
    /\ \E after \in {updateTimerFunc(Cur)} : Install(after)
    /\ UNCHANGED viewport
    /\ Observe("timer")

Next ==
    \/ OpenImage
    \/ OpenDir
    \/ PrevImage
    \/ NextImage
    \/ NavIgnored
    \/ Resize
    \/ Tick
    \/ TimerFire

Spec == Init /\ [][Next]_vars

\* The event loop lets time pass and delivers the timeout of a running timer.
SpecFair == Spec /\ WF_vars(Tick) /\ WF_vars(TimerFire)

(* ------------------------------------------------------------------ *)
(* The preview of an image of any size                                 *)
(* ------------------------------------------------------------------ *)

\* widths and heights around 1, around the edge of the preview box and
\* beyond it
Dims == {1, 2, 3, 7, 250, 499, 500, 501, 750, 1000, 1001, MaxDim}

\* Image.open has returned an image of some width and height (line 432)
InitThumb ==
    /\ InitViewer
    /\ source \in Dims \X Dims
    /\ thumbSize = NoSize
    /\ dimensions = NoSize

\* lines 433-446 on that image
MakePreview ==
    /\ lastOp = "init"
    /\ \E p \in {previewOf(source)} :
           /\ thumbSize' = p.thumbSize
           /\ dimensions' = p.dimensions
    /\ lastOp' = "preview"
    /\ UNCHANGED <<dirPath, imgFilePath, dirImageList, imageNumber, imTOut, mw,
                   pixmap, timer, navEnabled, viewport, result, scanned,
                   reselected, elapsed, burst, sinceResize, regressed, source>>

NextThumb == MakePreview

SpecThumb == InitThumb /\ [][NextThumb]_vars

(* ------------------------------------------------------------------ *)
(* Navigation list                                                     *)
(* ------------------------------------------------------------------ *)

\* self.imageNumber is an index of self.dirImageList
ValidIndex == imageNumber >= 0 /\ imageNumber < Len(dirImageList)

\* C1: whenever the list is installed and an index has been assigned, the
\* index is within the list: 0 <= imageNumber <= len(dirImageList) - 1.
C1_IndexInRange ==
    (dirImageList # << >> /\ imageNumber # NoIndex) => ValidIndex

\* C2: after a handler that ended without an exception, an assigned index
\* names the selected path, and the label shows that image.
C2_SelectionShown ==
    (result = "ok" /\ imageNumber # NoIndex /\ ValidIndex)
        => /\ dirImageList[imageNumber + 1] = imgFilePath
           /\ pixmap.kind \in {"full", "thumb"}
           /\ pixmap.of = imgFilePath

\* what nextImage and prevImage do to a valid index, and to the path
C3_Step ==
    LET n == Len(dirImageList)
    IN  /\ (lastOp' = "nextImage" /\ ValidIndex)
            => /\ imageNumber' = (imageNumber + 1) % n
               /\ imgFilePath' = dirImageList'[imageNumber' + 1]
               /\ (imageNumber = n - 1 => imageNumber' = 0)
        /\ (lastOp' = "prevImage" /\ ValidIndex)
            => /\ imageNumber' = (imageNumber + n - 1) % n
               /\ imgFilePath' = dirImageList'[imageNumber' + 1]
               /\ (imageNumber = 0 => imageNumber' = n - 1)

\* C3: from a valid index i of a list of n entries, nextImage sets the index
\* to (i+1) mod n and prevImage to (i-1) mod n, wrapping at both ends, and the
\* selected path becomes the entry at the new index.
C3_NextPrevModular == [][C3_Step]_vars

\* nextImage has wrapped from the last entry of a three-entry list to the first
C3_Wrapped ==
    /\ lastOp = "nextImage"
    /\ Len(dirImageList) = 3
    /\ imageNumber = 0
    /\ imgFilePath = dirImageList[1]

\* the handler that undoes a step of nextImage is prevImage, and conversely;
\* this is what it makes of the state the step ends in
C4_Back ==
    IF lastOp' = "nextImage" THEN prevImage(Cur)' ELSE nextImage(Cur)'

C4_Step ==
    (lastOp' \in {"nextImage", "prevImage"} /\ ValidIndex)
        => \A back \in {C4_Back} :
              /\ back.imageNumber = imageNumber
              /\ back.imgFilePath = imgFilePath

\* C4: from a valid index, nextImage followed by prevImage restores the index
\* and the selected path, and so does prevImage followed by nextImage.
C4_RoundTrip == [][C4_Step]_vars

(* ------------------------------------------------------------------ *)
(* Render pipeline                                                     *)
(* ------------------------------------------------------------------ *)

\* self.imgFilePath names a file that holds an image
ImageSelected == imgFilePath # Empty /\ Decodable(imgFilePath)

SelectionOps == {"openImage", "openDir", "prevImage", "nextImage"}

C5_Step ==
    \* the timeout that ends a burst of resize calls comes TimerDelay after
    \* the first of them, shows the selected image scaled from the file and
    \* stops the timer
    /\ (lastOp' = "timer" /\ burst >= 1 /\ ImageSelected)
        => /\ elapsed = TimerDelay
           /\ pixmap'.kind = "full"
           /\ pixmap'.of = imgFilePath
           /\ pixmap'.size = viewport
    \* neither a resize call nor the passing of time renders from the file
    /\ (lastOp' \in {"resize", "tick"} /\ pixmap'.kind = "full")
        => pixmap' = pixmap
    \* the timer fires only when started, is stopped by its timeout, and is
    \* started by a resize call only
    /\ lastOp' = "timer" => (timer = 0 /\ timer' = Inactive)
    /\ (timer = Inactive /\ timer' # Inactive) => lastOp' = "resize"

\* the timer runs
C5_Armed == timer # Inactive

\* the timer has fired and is stopped
C5_Fired == timer = Inactive

\* C5: with an image selected and the timer stopped, a burst of N >= 1 resize
\* calls within TimerDelay of the first one is followed by exactly one render
\* from the file: the timeout comes TimerDelay after the first call, it does
\* come, and nothing else renders from the file until a later resize call
\* starts the timer again.
C5_OneUpgradePerBurst == [][C5_Step]_vars /\ (C5_Armed ~> C5_Fired)

\* the timeout has ended a burst of at least two resize calls
C5_BurstUpgraded ==
    /\ lastOp = "timer"
    /\ burst >= 2
    /\ elapsed = TimerDelay
    /\ timer = Inactive
    /\ pixmap.kind = "full"
    /\ pixmap.of = imgFilePath

C6_Step ==
    (lastOp' = "timer" /\ reselected)
        => /\ pixmap'.kind \in {"full", "null"}
           /\ pixmap'.kind = "full" => pixmap'.of = imgFilePath'

\* C6: when the selected path has changed while the timer was running, the
\* timeout shows the image selected now (or nothing, when that file cannot
\* be loaded), never the image that was selected when the timer was started.
C6_NoStaleUpgrade == [][C6_Step]_vars

\* the timeout has shown the new selection after the path changed under the
\* running timer
C6_UpgradedNewSelection ==
    /\ lastOp = "timer"
    /\ reselected
    /\ pixmap.kind = "full"
    /\ pixmap.of = imgFilePath

C7_Step ==
    (lastOp' \in SelectionOps /\ result' = "UnidentifiedImageError")
        => /\ imgFilePath' = imgFilePath
           /\ imageNumber' = imageNumber
           /\ imTOut' = imTOut
           /\ pixmap' = pixmap

\* C7: a selection that fails because the file cannot be decoded leaves the
\* selected path, the index, the preview slot and the label as they were.
C7_DecodeFailureKeepsState == [][C7_Step]_vars

\* C8: whenever the label shows the rendition scaled from the preview slot,
\* the timer runs.
C8_LowImpliesArmed == pixmap.kind = "thumb" => timer # Inactive

\* a resize call has put the preview on the label
C8_LowShown ==
    /\ lastOp = "resize"
    /\ pixmap.kind = "thumb"
    /\ timer # Inactive

\* os.path.dirname
ParentDir(path) == SubSeq(path, 1, LastSlash(path) - 1)

C9_Step ==
    (/\ lastOp' = "openImage"
     /\ imgFilePath' # Empty
     /\ dirPath # Empty
     /\ Resolve(dirPath) = Resolve(ParentDir(imgFilePath'))
     /\ IndexOf(dirImageList, imgFilePath') # -1)
        => /\ ~scanned'
           /\ dirImageList' = dirImageList
           /\ imageNumber' = IndexOf(dirImageList, imgFilePath')

\* C9: openImage of a path of the list, in the directory that dirPath holds
\* (however dirPath got there), does not scan, leaves the list alone and sets
\* the index to the position of the path.
C9_SameDirNoRescan == [][C9_Step]_vars

C10_Step ==
    (scanned' /\ result' = "EmptyDirectory")
        => /\ dirImageList' = dirImageList
           /\ imageNumber' = imageNumber
           /\ navEnabled' = navEnabled
           /\ imTOut' = imTOut
           /\ pixmap' = pixmap
           /\ lastOp' = "openDir" => imgFilePath' = imgFilePath

\* C10: a scan that finds no supported image ends in EmptyDirectory and leaves
\* the list, the index and the label as they were; opening a directory with
\* no supported image leaves the selected path as it was, too.
C10_EmptyScanKeepsList == [][C10_Step]_vars

\* openDir of a directory with no supported image, with a list, a valid index
\* and an image on the label
C10_EmptyDirOpened ==
    /\ lastOp = "openDir"
    /\ scanned
    /\ result = "EmptyDirectory"
    /\ ValidIndex
    /\ imgFilePath = dirImageList[imageNumber + 1]
    /\ pixmap.kind = "full"
    /\ pixmap.of = imgFilePath

(* ------------------------------------------------------------------ *)
(* openDir, openImage and the scan                                     *)
(* ------------------------------------------------------------------ *)

C11_Step ==
    (/\ lastOp' = "openDir"
     /\ result' # "cancelled"
     /\ Len(dirImageList_(dirPath')) > 0)
        => /\ imageNumber' = 0
           /\ dirImageList' = dirImageList_(dirPath')
           /\ imgFilePath' = dirImageList'[1]
           /\ pixmap'.kind = "full"
           /\ pixmap'.of = imgFilePath'

\* C11: openDir of a directory that holds a supported image (the directory is
\* dirPath after the call) sets the index to 0, selects the first entry of
\* the sorted list and shows it, whatever the state before, the state where
\* that directory is dirPath already and a later index is selected included.
C11_OpenDirSelectsFirst == [][C11_Step]_vars

\* the name has one of the supported extensions
SupportedName(name) ==
    \E k \in 1..Len(fileTypes) :
        /\ Len(name) > Len(fileTypes[k])
        /\ EndsWith(name, fileTypes[k])

\* C12: after a scan that found something, the list holds exactly the files
\* of the scanned directory whose name has a supported extension, each once,
\* and is non-decreasing under comparison of the lower-cased paths.
C12_ScanExactSorted ==
    (scanned /\ result # "EmptyDirectory")
        => LET d == Resolve(dirPath)
           IN  /\ { Resolve(dirImageList[i]) : i \in 1..Len(dirImageList) }
                    = { Join(d, n) : n \in { m \in Range(Listing(d)) : SupportedName(m) } }
               /\ \A i, j \in 1..Len(dirImageList) :
                     i < j => /\ dirImageList[i] # dirImageList[j]
                              /\ ~StrLess(Lower(dirImageList[j]), Lower(dirImageList[i]))

\* the exceptions that leave a handler and reach sys.excepthook
Exceptions ==
    {"ValueError", "AttributeError", "IndexError", "UnidentifiedImageError",
     "IsADirectoryError"}

C13_Step ==
    (/\ lastOp' = "openImage"
     /\ result' \notin {"cancelled", "EmptyDirectory"}
     /\ IndexOf(dirImageList', imgFilePath') = -1)
        => /\ result' # "ok"
           /\ result' \notin Exceptions
           /\ imageNumber' # NoIndex
                => /\ imageNumber' < Len(dirImageList')
                   /\ dirImageList'[imageNumber' + 1] = imgFilePath'

\* C13: openImage of a path (imgFilePath after the call) that is not in the
\* list once any scan is done ends in an error result that is not an
\* exception leaving the handler, and an assigned index still names the
\* selected path in the list.
C13_NotFoundHandled == [][C13_Step]_vars

C14_Step ==
    (dirImageList = << >> /\ lastOp' \in {"prevImage", "nextImage", "navIgnored"})
        => /\ lastOp' = "navIgnored"
           /\ result' = "disabled"
           /\ UNCHANGED <<dirPath, imgFilePath, dirImageList, imageNumber,
                          imTOut, mw, pixmap, timer, navEnabled, viewport>>

C15_Step ==
    (lastOp' \in {"openImage", "openDir"} /\ result' = "cancelled")
        => UNCHANGED <<imgFilePath, imageNumber, dirImageList, dirPath, timer,
                       pixmap, imTOut, mw, navEnabled, viewport>>

\* C15: when the dialog of openImage or openDir returns "", the handler leaves
\* the selected path, the index, the list, dirPath, the timer and the label
\* as they were, and with them everything a later resize call or timeout
\* reads.
C15_CancelIsNoOp == [][C15_Step]_vars

(* ------------------------------------------------------------------ *)
(* Resize calls and the timer                                          *)
(* ------------------------------------------------------------------ *)

\* an image is selected and updateFunction(0) has put its preview in the slot
Rendered == ImageSelected /\ imTOut = imgFilePath

C16_Step ==
    \* while the burst goes on the label shows the rendition from the preview
    /\ (lastOp' \in {"resize", "tick"} /\ burst' >= 1 /\ Rendered)
        => pixmap'.kind = "thumb"
    \* the timeout that ends it comes TimerDelay after the last resize call
    /\ (lastOp' = "timer" /\ burst >= 1 /\ Rendered)
        => /\ sinceResize = TimerDelay
           /\ pixmap'.kind = "full"

\* C16: in a burst of resize calls, each less than TimerDelay after the one
\* before, the label shows the rendition scaled from the preview throughout,
\* and the one timeout that shows the rendition scaled from the file comes
\* TimerDelay after the last resize call, however long the burst lasts.
C16_UpgradeAfterLastResize == [][C16_Step]_vars

C17_Step ==
    (pixmap.kind = "full" /\ pixmap'.kind = "thumb") => lastOp' = "resize"

\* C17: every step that replaces the rendition scaled from the file by the
\* one scaled from the preview is a resize call; no timeout, navigation or
\* open does (whether the selected path stays the same or not).
C17_RegressOnlyOnResize == [][C17_Step]_vars

\* a resize call has replaced the rendition scaled from the file by the one
\* scaled from the preview, the selected image being the same
C17_RegressedOnResize ==
    /\ regressed
    /\ lastOp = "resize"
    /\ pixmap.kind = "thumb"
    /\ pixmap.of = imgFilePath

\* the label shows the rendition scaled from the preview, an image selected
C18_Low == pixmap.kind = "thumb" /\ ImageSelected

\* the label shows the selected image scaled from the file
C18_High == pixmap.kind = "full" /\ pixmap.of = imgFilePath

\* from some point on no resize call is made
C18_ResizeStops == <>[](lastOp # "resize")

\* C18: when resize calls stop, then whenever the label shows the rendition
\* scaled from the preview while an image is selected, it later shows the
\* image selected then, scaled from the file, given that time passes and the
\* timeout of a running timer is delivered.
C18_LowLeadsToHigh == C18_ResizeStops => (C18_Low ~> C18_High)

C19_Step ==
    LET path   == imgFilePath'
        parent == ParentDir(path)
    IN  (/\ lastOp' = "openImage"
         /\ result' # "cancelled"
         /\ dirPath = Empty \/ Resolve(dirPath) # parent
         /\ IndexOf(dirImageList_(parent), path) # -1
         /\ Decodable(path))
            => /\ scanned'
               /\ dirImageList' = dirImageList_(parent)
               /\ Resolve(dirPath') = parent
               /\ imageNumber' = IndexOf(dirImageList', path)
               /\ pixmap' = [kind |-> "full", of |-> path, size |-> viewport]

\* C19: openImage of a decodable image that the scan of its directory lists,
\* while dirPath is empty or names another directory, scans that directory,
\* makes the result the list, makes dirPath name that directory, sets the
\* index to the position of the path in the list and shows the image.
C19_OpenImageNewDir == [][C19_Step]_vars

C20_Step ==
    (/\ lastOp' = "resize"
     /\ imgFilePath # Empty
     /\ imTOut # Empty
     /\ timer = Inactive)
        => /\ timer' = TimerDelay
           /\ mw' = viewport'
           /\ pixmap' = [kind |-> "thumb", of |-> imTOut, size |-> viewport']

C21_Step ==
    (lastOp' = "resize" /\ timer # Inactive)
        => /\ timer' = timer
           /\ mw' = viewport'
           /\ pixmap'.kind = "thumb"
           /\ pixmap'.size = viewport'

\* C21: a resize call made while the timer runs leaves the time left on it
\* as it is, and puts on the label the preview scaled to the new size of the
\* viewport.
C21_ArmedResizeRedraws == [][C21_Step]_vars

\* the same for a resize call made while a path is selected and the preview
\* slot written
C21_SelectedStep ==
    (lastOp' = "resize" /\ timer # Inactive /\ imgFilePath # Empty /\ imTOut # Empty)
        => /\ timer' = timer
           /\ pixmap' = [kind |-> "thumb", of |-> imTOut, size |-> viewport']

C21_WhileSelected == [][C21_SelectedStep]_vars

C22_Step ==
    /\ (lastOp' = "timer")
           => /\ timer = 0
              /\ timer' = Inactive
              /\ imgFilePath' = imgFilePath
              /\ ImageSelected
                     => pixmap' = [kind |-> "full", of |-> imgFilePath, size |-> viewport]
    /\ (timer = Inactive /\ timer' # Inactive) => lastOp' = "resize"

\* C22: when the timer fires, the label gets the selected image scaled from
\* its file to the size of the last resize, and the timer is stopped; a
\* stopped timer is started again only by a resize call.
C22_FireUpgradesAndStops == [][C22_Step]_vars

C22_Fired ==
    /\ lastOp = "timer"
    /\ timer = Inactive
    /\ ImageSelected
    /\ viewport = <<400, 300>>
    /\ pixmap = [kind |-> "full", of |-> imgFilePath, size |-> viewport]

C23_Step ==
    (/\ lastOp' \in SelectionOps
     /\ timer # Inactive
     /\ result' = "ok"
     /\ imgFilePath' # imgFilePath)
        => timer' = Inactive

\* C23: a selection of another image made while the timer runs stops the
\* timer.
C23_SelectionDisarms == [][C23_Step]_vars

C24_Step ==
    (/\ lastOp' \in SelectionOps
     /\ result' = "ok"
     /\ imgFilePath' # imgFilePath)
        => imTOut' = imgFilePath'

\* C24: every selection that changes the selected path writes the preview of
\* the newly selected image to the preview slot.
C24_SelectionWritesPreview == [][C24_Step]_vars

\* a preview put on the label by a resize is the preview of the selected path
C24_ResizeShowsSelected ==
    (lastOp = "resize" /\ pixmap.kind = "thumb") => pixmap.of = imgFilePath

\* C25: for a source image of any width and height, the preview has both
\* edges at most 500 and at least 1, neither edge larger than the source's,
\* and the dimensions shown are the source's.
C25_PreviewBounded ==
    lastOp = "preview"
        => /\ thumbSize[1] >= 1 /\ thumbSize[2] >= 1
           /\ thumbSize[1] <= ThumbEdge /\ thumbSize[2] <= ThumbEdge
           /\ thumbSize[1] <= source[1] /\ thumbSize[2] <= source[2]
           /\ dimensions = source

C25_Shrunk ==
    /\ lastOp = "preview"
    /\ source = <<MaxDim, 7>>
    /\ thumbSize[1] = ThumbEdge
    /\ thumbSize[2] < 7
    /\ dimensions = source

\* the same in the viewer, for the files of the file system
C25_InViewer ==
    imTOut # Empty
        => /\ source = SourceSize(imTOut)
           /\ thumbSize[1] <= ThumbEdge /\ thumbSize[2] <= ThumbEdge
           /\ thumbSize[1] <= source[1] /\ thumbSize[2] <= source[2]
           /\ dimensions = source

C26_Step ==
    (lastOp' \in {"prevImage", "nextImage"})
        => /\ dirImageList' = dirImageList
           /\ dirPath' = dirPath
           /\ ~scanned'
           /\ navEnabled' = navEnabled
           /\ viewport' = viewport

\* C26: prevImage and nextImage leave the list of the directory and the
\* directory path as they were and do not scan the directory; they change
\* only the index, the selected path and what is rendered.
C26_NavKeepsDirectory == [][C26_Step]_vars

C26_Stepped ==
    /\ lastOp = "prevImage"
    /\ result = "ok"
    /\ imageNumber = 0
    /\ Len(dirImageList) > 1
    /\ imgFilePath = dirImageList[1]
    /\ imTOut = imgFilePath
    /\ ~scanned
    /\ pixmap.kind = "full"

\* C27: whenever the list of the directory is not empty, self.dirPath is the
\* directory whose scan produced it: every entry's parent directory is
\* self.dirPath.
C27_ListBelongsToDirPath ==
    dirImageList # << >>
        => \A i \in 1..Len(dirImageList) :
               Resolve(ParentDir(dirImageList[i])) = Resolve(dirPath)

\* C28: after every operation, the navigation actions are enabled exactly
\* when a list of images has been installed, also when rendering the selected
\* image failed.
C28_NavEnabledIffList ==
    navEnabled <=> (dirImageList # << >>)

C29_Step ==
    (lastOp' = "resize" /\ imgFilePath = Empty)
        => /\ mw' = viewport'
           /\ timer' = timer
           /\ pixmap' = pixmap
           /\ result' = "ok"
           /\ UNCHANGED <<imgFilePath, imTOut, dirPath, dirImageList, imageNumber,
                          navEnabled, thumbSize, dimensions>>

\* C29: a resize call made while no path is selected records the new size
\* and nothing else: the timer is not started, the preview is not read and
\* the label is left as it is.
C29_ResizeWithoutImage == [][C29_Step]_vars

C29_Recorded ==
    /\ lastOp = "resize"
    /\ imgFilePath = Empty
    /\ mw = viewport
    /\ mw = <<400, 300>>
    /\ timer = Inactive
    /\ pixmap = TextPixmap
    /\ result = "ok"

C30_Step ==
    (/\ lastOp' = "resize"
     /\ \/ (timer = Inactive /\ timer' # Inactive)
        \/ pixmap'.kind = "thumb")
        => /\ imTOut # Empty
           /\ dimensions # NoSize

\* C30: a resize call starts the timer or puts the preview on the label only
\* after a selection has succeeded: the preview slot has been written and an
\* image has been rendered from its file.
C30_LowOnlyAfterSuccess == [][C30_Step]_vars

====
